---- MODULE Spec2Model ----
(***************************************************************************)
(* Model of nodes.py: the conditioning nodes (CLIPTextEncode,              *)
(* ConditioningCombine, ConditioningSetArea), KSampler.sample,             *)
(* LatentUpscale.upscale, SaveImage.save_images and the loaders' file      *)
(* filters.                                                                *)
(*                                                                         *)
(* Python objects that can be aliased (the [tensor, dict] entries of a     *)
(* conditioning list) live in a heap indexed by object identity; a         *)
(* conditioning list is a sequence of identities.  Strings (file names)    *)
(* are sequences of one-character strings.                                 *)
(***************************************************************************)
EXTENDS Integers, Sequences, FiniteSets, TLC

VARIABLES
    heap,        \* conditioning entries: identity -> [emb, meta]
    outputs,     \* node outputs holding conditioning lists, in creation order
    gen,         \* the process-wide default torch generator: [seed, offset]
    modelDev,    \* where the model's weights are stored: "cpu" or "cuda"
    lastCall,    \* record of the last KSampler.sample call that ended
    refCall,     \* seed, shape and noise of one remembered earlier call
    dir,         \* the file names in the output directory
    lastSave,    \* record of the last SaveImage.save_images call
    lastUpscale, \* record of the last LatentUpscale.upscale call
    supported_ckpt_extensions, \* the module-level list of checkpoint extensions
    models_dir,  \* the file names in models/configs, models/checkpoints, models/vae
    lastListing  \* record of the last loader INPUT_TYPES call

vars == <<heap, outputs, gen, modelDev, lastCall, refCall, dir, lastSave, lastUpscale,
          supported_ckpt_extensions, models_dir, lastListing>>

condVars == <<heap, outputs>>
sampleVars == <<gen, modelDev, lastCall, refCall>>
saveVars == <<dir, lastSave>>
listVars == <<supported_ckpt_extensions, models_dir, lastListing>>

None == [kind |-> "none"]

(***************************************************************************)
(* Conditioning nodes                                                      *)
(***************************************************************************)

MaxEntries == 5     \* bound on the number of entry objects
MaxOutputs == 4     \* bound on the number of node outputs
MaxListLen == 3     \* bound on the length of a conditioning list

Pixels == {0, 72}              \* pixel coordinates offered to set_area
Strengths == {50, 100}         \* strength in hundredths

EmptyDict == [k \in {} |-> 0]

\* the set of identities in use
Ids == DOMAIN heap

SeqToSet(s) == {s[i] : i \in DOMAIN s}

\* CLIPTextEncode.encode: a new list holding one new entry with an empty dict
encode(b) ==
    /\ Cardinality(Ids) < MaxEntries
    /\ Len(outputs) < MaxOutputs
    /\ LET id == Cardinality(Ids) + 1
       IN /\ heap' = [i \in Ids \cup {id} |->
                        IF i = id THEN [emb |-> b, meta |-> EmptyDict] ELSE heap[i]]
          /\ outputs' = Append(outputs, [node |-> "CLIPTextEncode", input |-> <<>>, value |-> <<id>>])

\* ConditioningCombine.combine: list concatenation, the entries are shared
combine(i, j) ==
    /\ Len(outputs) < MaxOutputs
    /\ Len(outputs[i].value) + Len(outputs[j].value) <= MaxListLen
    /\ outputs' = Append(outputs, [node |-> "ConditioningCombine", input |-> <<i, j>>,
                                   value |-> outputs[i].value \o outputs[j].value])
    /\ UNCHANGED heap

\* what a shallow copy of the list would give: the same entry objects
ShallowCopyMap(l) == [id \in SeqToSet(l) |-> id]

\* copy.deepcopy(conditioning): every distinct entry object of the list gets
\* one fresh copy (the memo keeps entries shared inside the list shared)
DeepCopyMap(l) ==
    LET olds == SeqToSet(l)
        rank(id) == Cardinality({o \in olds : o < id})
    IN [id \in olds |-> Cardinality(Ids) + 1 + rank(id)]

\* the dict after the four assignments of the loop body
SetAreaMeta(m, width, height, x, y, strength, min_sigma, max_sigma) ==
    [k \in DOMAIN m \cup {"area", "strength", "min_sigma", "max_sigma"} |->
        CASE k = "area" -> <<height \div 8, width \div 8, y \div 8, x \div 8>>
          [] k = "strength" -> strength
          [] k = "min_sigma" -> min_sigma
          [] k = "max_sigma" -> max_sigma
          [] OTHER -> m[k]]

\* ConditioningSetArea.append
append(i, width, height, x, y, strength, min_sigma, max_sigma) ==
    LET conditioning == outputs[i].value
        cp == DeepCopyMap(conditioning)
        c == [n \in DOMAIN conditioning |-> cp[conditioning[n]]]
        new == {cp[o] : o \in DOMAIN cp}
        src(id) == CHOOSE o \in DOMAIN cp : cp[o] = id
    IN /\ Len(outputs) < MaxOutputs
       /\ Cardinality(Ids \cup new) <= MaxEntries
       /\ heap' = [id \in Ids \cup new |->
                     IF id \in SeqToSet(c)
                     THEN [emb |-> heap[src(id)].emb,
                           meta |-> SetAreaMeta(heap[src(id)].meta, width, height, x, y,
                                                strength, min_sigma, max_sigma)]
                     ELSE heap[id]]
       /\ outputs' = Append(outputs, [node |-> "ConditioningSetArea", input |-> <<i>>, value |-> c])

NextEncode == \E b \in {1} : encode(b) /\ UNCHANGED <<sampleVars, saveVars, lastUpscale, listVars>>

NextCombine ==
    \E i, j \in DOMAIN outputs : combine(i, j) /\ UNCHANGED <<sampleVars, saveVars, lastUpscale, listVars>>

NextAppend ==
    \E i \in DOMAIN outputs : \E width, height \in {64}, x \in Pixels, y \in {0} :
    \E strength \in Strengths, min_sigma \in {0}, max_sigma \in {99} :
        /\ append(i, width, height, x, y, strength, min_sigma, max_sigma)
        /\ UNCHANGED <<sampleVars, saveVars, lastUpscale, listVars>>

(***************************************************************************)
(* KSampler.sample                                                         *)
(***************************************************************************)

MaxSeed == 1                       \* seeds 0..MaxSeed are offered
Seeds == 0 .. MaxSeed
LatentBatches == {4, 6}            \* batch sizes of the latent image
Devices == {"cpu", "cuda"}         \* self.device of the node
SAMPLERS == {"sample_euler"}       \* comfy.samplers.KSampler.SAMPLERS
SamplerNames == SAMPLERS \cup {"sample_unknown"}
SamplerOutcomes == {"ok", "raise"} \* sampler.sample returns or raises

Cond(b) == [emb |-> b, meta |-> EmptyDict]
\* conditioning lists offered as positive and negative
CondLists == {<<Cond(1)>>, <<Cond(3), Cond(6)>>}

\* latent_image.size() of a latent made by EmptyLatentImage for 64x64 pixels
LatentShape(n) == <<n, 4, 8, 8>>
Numel(shape) == shape[1] * shape[2] * shape[3] * shape[4]

\* a generator that is left as it is (the seed is not applied)
manual_seed_ignored(seed) == gen

\* torch.manual_seed(seed): seeds the default generator and returns it
manual_seed(seed) == [seed |-> seed, offset |-> 0]

\* torch.randn(size, generator=g, device=d): the values are the next
\* Numel(size) values of g's stream, drawn on device d
randn(size, g, d) == [seed |-> g.seed, from |-> g.offset, shape |-> size, dev |-> d]

\* the generator after the draw
Advance(g, size) == [g EXCEPT !.offset = @ + Numel(size)]

\* lines 232-235: the batch size of t after the loop body
BroadcastBatch(b, n) == IF b < n THEN b * n ELSE b

\* lines 231-242: positive_copy / negative_copy
BroadcastList(l, n) == [i \in DOMAIN l |-> [l[i] EXCEPT !.emb = BroadcastBatch(@, n)]]

sample(device, seed, sampler_name, positive, negative, n, outcome, keepRef) ==
    LET size == LatentShape(n)
        g == manual_seed(seed)
        noise == randn(size, g, "cpu")
        positive_copy == BroadcastList(positive, n)
        negative_copy == BroadcastList(negative, n)
        bound == sampler_name \in SAMPLERS
        result == IF ~bound THEN "UnboundLocalError"
                  ELSE IF outcome = "raise" THEN "SamplerError" ELSE "ok"
    IN /\ gen' = Advance(g, size)
       /\ modelDev' = IF result = "ok" THEN "cpu" ELSE device
       /\ lastCall' = [kind |-> "call", device |-> device, seed |-> seed,
                       sampler_name |-> sampler_name, shape |-> size,
                       positive |-> positive, negative |-> negative,
                       noise |-> noise, noiseDrawn |-> TRUE, movedTo |-> device,
                       positive_copy |-> positive_copy, negative_copy |-> negative_copy,
                       handed |-> bound, result |-> result,
                       returned |-> IF result = "ok" THEN size ELSE <<>>]
       /\ refCall' = IF lastCall = None THEN None
                     ELSE IF keepRef /\ refCall # None
                          THEN [refCall EXCEPT !.gap = @ \/ lastCall.seed # refCall.seed]
                          ELSE [kind |-> "ref", seed |-> lastCall.seed, shape |-> lastCall.shape,
                                device |-> lastCall.device, noise |-> lastCall.noise,
                                gap |-> FALSE]

NextSample ==
    \E device \in Devices, seed \in Seeds, sampler_name \in SamplerNames :
    \E positive, negative \in CondLists, n \in LatentBatches :
    \E outcome \in SamplerOutcomes, keepRef \in BOOLEAN :
        /\ (sampler_name \notin SAMPLERS => outcome = "ok")
        /\ sample(device, seed, sampler_name, positive, negative, n, outcome, keepRef)
        /\ UNCHANGED <<condVars, saveVars, lastUpscale, listVars>>

(***************************************************************************)
(* Strings                                                                 *)
(***************************************************************************)

Min(a, b) == IF a < b THEN a ELSE b
Max(a, b) == IF a > b THEN a ELSE b

\* Python's s[a:b] for 0 <= a, 0 <= b (indices are clamped to the length)
Slice(s, a, b) == SubSeq(s, a + 1, Min(b, Len(s)))

\* Python's s[a:]
SliceFrom(s, a) == SubSeq(s, a + 1, Len(s))

Digits == <<"0", "1", "2", "3", "4", "5", "6", "7", "8", "9">>
IsDigit(c) == \E i \in DOMAIN Digits : Digits[i] = c
DigitVal(c) == (CHOOSE i \in DOMAIN Digits : Digits[i] = c) - 1

RECURSIVE DecimalValue(_)
DecimalValue(s) == IF s = <<>> THEN 0
                   ELSE 10 * DecimalValue(SubSeq(s, 1, Len(s) - 1)) + DigitVal(s[Len(s)])

AllDigits(s) == s # <<>> /\ \A i \in DOMAIN s : IsDigit(s[i])

\* int(s) of a string of digits with an optional sign; ok = FALSE where
\* int raises ValueError
ParseInt(s) ==
    IF AllDigits(s) THEN [ok |-> TRUE, value |-> DecimalValue(s)]
    ELSE IF s # <<>> /\ s[1] \in {"+", "-"} /\ AllDigits(Tail(s))
         THEN [ok |-> TRUE, value |-> IF s[1] = "-" THEN 0 - DecimalValue(Tail(s))
                                      ELSE DecimalValue(Tail(s))]
         ELSE [ok |-> FALSE, value |-> 0]

\* s.split('_')[0]
SplitFirst(s) ==
    IF \E i \in DOMAIN s : s[i] = "_"
    THEN SubSeq(s, 1, (CHOOSE i \in DOMAIN s : s[i] = "_" /\ \A j \in 1 .. (i - 1) : s[j] # "_") - 1)
    ELSE s

RECURSIVE Decimal(_)
\* str(n) for n >= 0
Decimal(n) == IF n < 10 THEN <<Digits[n + 1]>> ELSE Append(Decimal(n \div 10), Digits[(n % 10) + 1])

RECURSIVE ZeroPad(_, _)
ZeroPad(s, w) == IF Len(s) >= w THEN s ELSE ZeroPad(<<"0">> \o s, w)

\* f"{n:05}": zero padded to width 5, the sign counted in the width
Format05(n) == IF n >= 0 THEN ZeroPad(Decimal(n), 5)
               ELSE <<"-">> \o ZeroPad(Decimal(0 - n), 4)

(***************************************************************************)
(* SaveImage.save_images                                                   *)
(***************************************************************************)

MaxImages == 2      \* bound on the images of one call
MaxFiles == 6       \* bound on the files in the output directory
MaxExisting == 3    \* bound on the files the directory holds at the start

ComfyUI == <<"C", "o", "m", "f", "y", "U", "I">>
PngSuffix == <<"_", ".", "p", "n", "g">>
Prefixes == {ComfyUI, ComfyUI \o <<"_", "2">>}

\* file names the output directory may hold at the start
ExistingFiles ==
    { ComfyUI \o <<"_", "0", "0", "0", "0", "7">> \o PngSuffix,       \* ComfyUI_00007_.png
      ComfyUI \o <<"_", "2", "_", "0", "0", "0", "0", "1">> \o PngSuffix, \* ComfyUI_2_00001_.png
      ComfyUI \o <<"_", "a", "b">> \o PngSuffix,                      \* ComfyUI_ab_.png
      ComfyUI \o <<"x", "_", "0", "0", "0", "0", "9">> \o PngSuffix,  \* ComfyUIx_00009_.png
      ComfyUI,                                                        \* ComfyUI
      <<"o", "_", "0", "0", "0", "2", "0">> \o PngSuffix }            \* o_00020_.png

\* map_filename of save_images
map_filename(filename, filename_prefix) ==
    LET prefix_len == Len(filename_prefix)
        prefix == Slice(filename, 0, prefix_len + 1)
        parsed == ParseInt(SplitFirst(SliceFrom(filename, prefix_len + 1)))
    IN [digits |-> IF parsed.ok THEN parsed.value ELSE 0, prefix |-> prefix]

\* the filter of line 285: a[1][:-1] == filename_prefix and a[1][-1] == "_"
MatchesPrefix(a, filename_prefix) ==
    /\ a.prefix # <<>>
    /\ SubSeq(a.prefix, 1, Len(a.prefix) - 1) = filename_prefix
    /\ a.prefix[Len(a.prefix)] = "_"

\* lines 284-287: the first counter of the call
FirstCounter(files, filename_prefix) ==
    LET matching == {a \in {map_filename(f, filename_prefix) : f \in files} :
                        MatchesPrefix(a, filename_prefix)}
    IN IF matching = {} THEN 1
       ELSE (CHOOSE d \in {a.digits : a \in matching} :
                \A a \in matching : a.digits <= d) + 1

\* line 297: the file name written for a counter
OutputName(filename_prefix, counter) == filename_prefix \o <<"_">> \o Format05(counter) \o PngSuffix

\* the output directory is listed and written under the same path (the
\* program is started in its install directory)
save_images(images, filename_prefix) ==
    LET counter == FirstCounter(dir, filename_prefix)
        written == [i \in 1 .. images |-> OutputName(filename_prefix, counter + i - 1)]
    IN /\ Cardinality(dir) + images <= MaxFiles
       /\ dir' = dir \cup SeqToSet(written)
       /\ lastSave' = [kind |-> "save", filename_prefix |-> filename_prefix,
                       before |-> dir, written |-> written]

NextSave ==
    \E images \in 1 .. MaxImages, filename_prefix \in Prefixes :
        /\ save_images(images, filename_prefix)
        /\ UNCHANGED <<condVars, sampleVars, lastUpscale, listVars>>

(***************************************************************************)
(* LatentUpscale.upscale                                                   *)
(***************************************************************************)

upscale_methods == {"nearest-exact", "bilinear", "area"}
crop_methods == {"disabled", "center"}
LatentSides == {32, 64, 96}        \* heights and widths of the source latent
TargetSides == {512, 768, 1024}    \* target widths and heights in pixels

\* Python's round(p / q) for q > 0: to the nearest integer, ties to even
PyRound(p, q) ==
    LET fl == p \div q
        r == p - fl * q
    IN IF 2 * r < q THEN fl
       ELSE IF 2 * r > q THEN fl + 1
       ELSE IF fl % 2 = 0 THEN fl ELSE fl + 1

\* the branches of the crop taken the other way round
CropOffsetsSwapped(old_width, old_height, width, height) ==
    IF old_width * height < width * old_height
    THEN [x |-> PyRound(width * old_height - old_width * height, 2 * height), y |-> 0]
    ELSE IF old_width * height > width * old_height
    THEN [x |-> 0, y |-> PyRound(old_height * width - height * old_width, 2 * width)]
    ELSE [x |-> 0, y |-> 0]

\* lines 184-191, in exact arithmetic: old_aspect > new_aspect iff
\* old_width * height > width * old_height, and
\*   (old_width - old_width * (new_aspect / old_aspect)) / 2
\*      = (old_width * height - width * old_height) / (2 * height)
\*   (old_height - old_height * (old_aspect / new_aspect)) / 2
\*      = (old_height * width - height * old_width) / (2 * width)
CropOffsets(old_width, old_height, width, height) ==
    IF old_width * height > width * old_height
    THEN [x |-> PyRound(old_width * height - width * old_height, 2 * height), y |-> 0]
    ELSE IF old_width * height < width * old_height
    THEN [x |-> 0, y |-> PyRound(old_height * width - height * old_width, 2 * width)]
    ELSE [x |-> 0, y |-> 0]

upscale(old_height, old_width, upscale_method, width, height, crop) ==
    LET o == IF crop = "center" THEN CropOffsets(old_width, old_height, width, height)
             ELSE [x |-> 0, y |-> 0]
        \* the slice y:old_height-y, x:old_width-x (the whole tensor without crop)
        rows == <<o.y, old_height - o.y>>
        cols == <<o.x, old_width - o.x>>
    IN lastUpscale' = [kind |-> "upscale", crop |-> crop, upscale_method |-> upscale_method,
                       old_height |-> old_height, old_width |-> old_width,
                       width |-> width, height |-> height,
                       rows |-> rows, cols |-> cols,
                       cropped |-> <<Max(rows[2] - rows[1], 0), Max(cols[2] - cols[1], 0)>>,
                       size |-> <<height \div 8, width \div 8>>]

NextUpscale ==
    \E old_height, old_width \in LatentSides, upscale_method \in upscale_methods :
    \E width, height \in TargetSides, crop \in crop_methods :
        /\ upscale(old_height, old_width, upscale_method, width, height, crop)
        /\ UNCHANGED <<condVars, sampleVars, saveVars, listVars>>

(***************************************************************************)
(* filter_files_extensions and the loaders' INPUT_TYPES                    *)
(***************************************************************************)

MaxListed == 2      \* bound on the files of one models directory

DotYaml == <<".", "y", "a", "m", "l">>
DotCkpt == <<".", "c", "k", "p", "t">>
DotSafetensors == <<".", "s", "a", "f", "e", "t", "e", "n", "s", "o", "r", "s">>

\* file names the models directories may hold
ModelFiles ==
    { <<"a", ".", "y", "a", "m", "l">>,
      <<"B", ".", "Y", "A", "M", "L">>,
      <<"R", "E", "A", "D", "M", "E">>,
      <<"x", ".", "t", "x", "t">>,
      <<"m", ".", "c", "k", "p", "t">>,
      <<"s", ".", "s", "a", "f", "e", "t", "e", "n", "s", "o", "r", "s">> }

Listings == {d \in SUBSET ModelFiles : Cardinality(d) <= MaxListed}

\* code points of the characters in use
Ord == [c \in {".", "A", "B", "C", "D", "E", "K", "L", "M", "P", "R", "T", "Y",
               "a", "b", "c", "e", "f", "k", "l", "m", "n", "o", "p", "r", "s", "t", "x", "y"} |->
          CASE c = "." -> 46
            [] c = "A" -> 65 [] c = "B" -> 66 [] c = "C" -> 67 [] c = "D" -> 68
            [] c = "E" -> 69 [] c = "K" -> 75 [] c = "L" -> 76 [] c = "M" -> 77
            [] c = "P" -> 80 [] c = "R" -> 82 [] c = "T" -> 84 [] c = "Y" -> 89
            [] c = "a" -> 97 [] c = "b" -> 98 [] c = "c" -> 99 [] c = "e" -> 101
            [] c = "f" -> 102 [] c = "k" -> 107 [] c = "l" -> 108 [] c = "m" -> 109
            [] c = "n" -> 110 [] c = "o" -> 111 [] c = "p" -> 112 [] c = "r" -> 114
            [] c = "s" -> 115 [] c = "t" -> 116 [] c = "x" -> 120 [] c = "y" -> 121]

\* str.lower() on the characters in use
LowerChar(c) ==
    IF Ord[c] >= 65 /\ Ord[c] <= 90
    THEN CHOOSE d \in DOMAIN Ord : Ord[d] = Ord[c] + 32
    ELSE c
Lower(s) == [i \in DOMAIN s |-> LowerChar(s[i])]

\* os.path.splitext(p)[-1] of a name without directory separators: the part
\* from the last dot on, or empty when there is no dot or only dots precede it
SplitExt(p) ==
    IF \E i \in DOMAIN p : p[i] = "."
    THEN LET dotIndex == CHOOSE i \in DOMAIN p : p[i] = "." /\ \A j \in (i + 1) .. Len(p) : p[j] # "."
         IN IF \E j \in 1 .. (dotIndex - 1) : p[j] # "." THEN SubSeq(p, dotIndex, Len(p)) ELSE <<>>
    ELSE <<>>

\* x in s for two strings: x occurs in s
IsSubstring(x, s) == \E i \in 0 .. (Len(s) - Len(x)) : SubSeq(s, i + 1, i + Len(x)) = x

\* x in extensions: substring test when extensions is a str, membership
\* when it is a list
PyIn(x, extensions) ==
    IF extensions.type = "str" THEN IsSubstring(x, extensions.value)
    ELSE \E i \in DOMAIN extensions.value : extensions.value[i] = x

StrArg(s) == [type |-> "str", value |-> s]
ListArg(l) == [type |-> "list", value |-> l]

\* a < b for two strings, by code points
RECURSIVE LexLess(_, _)
LexLess(a, b) ==
    IF a = <<>> THEN b # <<>>
    ELSE IF b = <<>> THEN FALSE
    ELSE IF a[1] = b[1] THEN LexLess(Tail(a), Tail(b))
    ELSE Ord[a[1]] < Ord[b[1]]

RECURSIVE Sorted(_)
Sorted(S) ==
    IF S = {} THEN <<>>
    ELSE LET m == CHOOSE x \in S : \A y \in S : x = y \/ LexLess(x, y)
         IN <<m>> \o Sorted(S \ {m})

filter_files_extensions(files, extensions) ==
    Sorted({a \in files : PyIn(Lower(SplitExt(a)), extensions)})

\* CheckpointLoader.INPUT_TYPES: os.listdir of the two directories, filtered
CheckpointLoaderInputTypes ==
    /\ lastListing' = [kind |-> "CheckpointLoader",
                       config_name |-> filter_files_extensions(models_dir.configs, StrArg(DotYaml)),
                       ckpt_name |-> filter_files_extensions(models_dir.checkpoints,
                                                             ListArg(supported_ckpt_extensions))]
    /\ UNCHANGED <<supported_ckpt_extensions, models_dir>>

\* VAELoader.INPUT_TYPES
VAELoaderInputTypes ==
    /\ lastListing' = [kind |-> "VAELoader",
                       vae_name |-> filter_files_extensions(models_dir.vae,
                                                            ListArg(supported_ckpt_extensions))]
    /\ UNCHANGED <<supported_ckpt_extensions, models_dir>>

NextCheckpointLoader ==
    CheckpointLoaderInputTypes /\ UNCHANGED <<condVars, sampleVars, saveVars, lastUpscale>>

NextVAELoader ==
    VAELoaderInputTypes /\ UNCHANGED <<condVars, sampleVars, saveVars, lastUpscale>>

(***************************************************************************)
(* Specifications                                                          *)
(***************************************************************************)

\* no conditioning yet
InitCond ==
    /\ heap = [i \in {} |-> None]
    /\ outputs = <<>>
    /\ gen = [seed |-> 0, offset |-> 0]
    /\ modelDev = "cpu"
    /\ lastCall = None
    /\ refCall = None
    /\ dir = {}
    /\ lastSave = None
    /\ lastUpscale = None
    /\ supported_ckpt_extensions = <<DotCkpt>>
    /\ models_dir = [configs |-> {}, checkpoints |-> {}, vae |-> {}]
    /\ lastListing = None

\* the default generator in any state, the model loaded on the CPU
InitSample ==
    /\ heap = [i \in {} |-> None]
    /\ outputs = <<>>
    /\ gen \in {[seed |-> s, offset |-> o] : s \in Seeds, o \in {0, 7}}
    /\ modelDev = "cpu"
    /\ lastCall = None
    /\ refCall = None
    /\ dir = {}
    /\ lastSave = None
    /\ lastUpscale = None
    /\ supported_ckpt_extensions = <<DotCkpt>>
    /\ models_dir = [configs |-> {}, checkpoints |-> {}, vae |-> {}]
    /\ lastListing = None

\* an output directory holding some files
InitSave ==
    /\ heap = [i \in {} |-> None]
    /\ outputs = <<>>
    /\ gen = [seed |-> 0, offset |-> 0]
    /\ modelDev = "cpu"
    /\ lastCall = None
    /\ refCall = None
    /\ dir \in {d \in SUBSET ExistingFiles : Cardinality(d) <= MaxExisting}
    /\ lastSave = None
    /\ lastUpscale = None
    /\ supported_ckpt_extensions = <<DotCkpt>>
    /\ models_dir = [configs |-> {}, checkpoints |-> {}, vae |-> {}]
    /\ lastListing = None

\* no upscale yet
InitUpscale ==
    /\ heap = [i \in {} |-> None]
    /\ outputs = <<>>
    /\ gen = [seed |-> 0, offset |-> 0]
    /\ modelDev = "cpu"
    /\ lastCall = None
    /\ refCall = None
    /\ dir = {}
    /\ lastSave = None
    /\ lastUpscale = None
    /\ supported_ckpt_extensions = <<DotCkpt>>
    /\ models_dir = [configs |-> {}, checkpoints |-> {}, vae |-> {}]
    /\ lastListing = None

\* lines 19-24 with or without safetensors installed, and the models directories
InitListing ==
    /\ heap = [i \in {} |-> None]
    /\ outputs = <<>>
    /\ gen = [seed |-> 0, offset |-> 0]
    /\ modelDev = "cpu"
    /\ lastCall = None
    /\ refCall = None
    /\ dir = {}
    /\ lastSave = None
    /\ lastUpscale = None
    /\ supported_ckpt_extensions \in {<<DotCkpt>>, <<DotCkpt, DotSafetensors>>}
    /\ models_dir \in [configs : Listings, checkpoints : Listings, vae : Listings]
    /\ lastListing = None

NextCond == NextEncode \/ NextCombine \/ NextAppend

NextListing == NextCheckpointLoader \/ NextVAELoader

SpecCond == InitCond /\ [][NextCond]_vars

SpecSample == InitSample /\ [][NextSample]_vars

SpecSave == InitSave /\ [][NextSave]_vars

SpecUpscale == InitUpscale /\ [][NextUpscale]_vars

SpecListing == InitListing /\ [][NextListing]_vars

(***************************************************************************)
(* Properties                                                              *)
(***************************************************************************)

HasAreaMeta(id) == {"area", "strength", "min_sigma", "max_sigma"} \subseteq DOMAIN heap[id].meta

\* C1: set_area never mutates its input: no step changes the embedding or
\* the metadata of an entry that existed before the step, so the entries of
\* the list passed to set_area are after the call what they were before it.
C1_SetAreaDoesNotMutateInput ==
    [][\A id \in DOMAIN heap : id \in DOMAIN heap' /\ heap'[id] = heap[id]]_vars

\* the same list was passed to set_area twice with different arguments, its
\* entries still have no metadata and the two results carry their own
C1_Witness ==
    \E a, b \in DOMAIN outputs :
        /\ a # b
        /\ outputs[a].node = "ConditioningSetArea"
        /\ outputs[b].node = "ConditioningSetArea"
        /\ outputs[a].input = outputs[b].input
        /\ LET L == outputs[outputs[a].input[1]].value
           IN /\ \A n \in DOMAIN L : heap[L[n]].meta = EmptyDict
              /\ \A n \in DOMAIN L : HasAreaMeta(outputs[a].value[n]) /\ HasAreaMeta(outputs[b].value[n])
              /\ \E n \in DOMAIN L : heap[outputs[a].value[n]].meta # heap[outputs[b].value[n]].meta

\* C2: two sample calls with the same seed and the same latent shape draw the
\* same noise, whatever the devices of the two nodes, the calls in between
\* and the state the default generator was in.
C2_SeedDeterminism ==
    (lastCall # None /\ refCall # None
        /\ lastCall.seed = refCall.seed /\ lastCall.shape = refCall.shape)
    => lastCall.noise = refCall.noise

\* two calls with one seed and shape on different devices, with a call of
\* another seed between them
C2_Witness ==
    /\ lastCall # None /\ refCall # None
    /\ lastCall.seed = refCall.seed /\ lastCall.shape = refCall.shape
    /\ lastCall.device # refCall.device
    /\ refCall.gap

Entries(call) ==
    {<<call.positive[i], call.positive_copy[i]>> : i \in DOMAIN call.positive}
    \cup {<<call.negative[i], call.negative_copy[i]>> : i \in DOMAIN call.negative}

BatchOf(call) == call.shape[1]

\* C3: an entry whose batch size b is smaller than the latent batch size N
\* (and divides it) is handed to the sampler with batch size exactly N; an
\* entry with b = N is handed over unchanged.
C3_BroadcastToLatentBatch ==
    lastCall # None =>
        \A e \in Entries(lastCall) :
            /\ (e[1].emb < BatchOf(lastCall) /\ BatchOf(lastCall) % e[1].emb = 0)
                   => e[2].emb = BatchOf(lastCall)
            /\ e[1].emb = BatchOf(lastCall) => e[2] = e[1]

Irreconcilable(b, n) == b > n \/ n % b # 0

\* C4: a call with an entry whose batch size cannot be tiled to the latent
\* batch size fails with ShapeMismatchError, returns no latent and hands
\* nothing to the sampler.
C4_ShapeMismatchRaised ==
    (lastCall # None /\ \E e \in Entries(lastCall) : Irreconcilable(e[1].emb, BatchOf(lastCall)))
    => /\ lastCall.result = "ShapeMismatchError"
       /\ lastCall.returned = <<>>
       /\ ~lastCall.handed

\* C5: a call with an unsupported sampler name fails with ConfigurationError
\* before anything was computed: no noise drawn, nothing moved to the
\* compute device, no conditioning broadcast.
C5_UnknownSamplerFailsFast ==
    (lastCall # None /\ lastCall.sampler_name \notin SAMPLERS)
    => /\ lastCall.result = "ConfigurationError"
       /\ ~lastCall.noiseDrawn
       /\ lastCall.movedTo = "none"
       /\ lastCall.positive_copy = <<>> /\ lastCall.negative_copy = <<>>

\* C6: after every sample call that ended, returned or failed, the model is
\* on CPU storage.
C6_ModelReleased == modelDev = "cpu"

\* C7: a sample call leaves the state of the process-wide default generator
\* unchanged.
C7_DefaultGeneratorUntouched == [][lastCall' # lastCall => gen' = gen]_vars

\* a file numbered under exactly the prefix P: P, "_", a counter field, "_"
\* and a tail, with no further "_"
NumberedUnder(f, P) ==
    /\ Len(f) > Len(P) + 1
    /\ SubSeq(f, 1, Len(P)) = P
    /\ f[Len(P) + 1] = "_"
    /\ Cardinality({i \in (Len(P) + 2) .. Len(f) : f[i] = "_"}) = 1

CounterOf(f, P) ==
    LET parsed == ParseInt(SplitFirst(SubSeq(f, Len(P) + 2, Len(f))))
    IN IF parsed.ok THEN parsed.value ELSE 0

HighestCounter(files, P) ==
    LET cs == {0} \cup {CounterOf(f, P) : f \in {g \in files : NumberedUnder(g, P)}}
    IN CHOOSE c \in cs : \A d \in cs : d <= c

\* C8: the images of a call with prefix P are written as P_NNNNN_.png with
\* consecutive counters starting at 1 + the highest counter among the
\* existing files of exactly prefix P; files of other prefixes, also those
\* extending P by an underscore segment, do not count.
C8_CounterPerDistinctPrefix ==
    lastSave # None =>
        \A i \in DOMAIN lastSave.written :
            lastSave.written[i] =
                OutputName(lastSave.filename_prefix,
                           HighestCounter(lastSave.before, lastSave.filename_prefix) + i)

Scenario9 ==
    /\ lastUpscale # None
    /\ lastUpscale.crop = "center"
    /\ lastUpscale.old_height = 64 /\ lastUpscale.old_width = 64
    /\ lastUpscale.width = 768 /\ lastUpscale.height = 512

\* C9 as stated: the 64x64 latent upscaled to 768x512 with center crop loses
\* the same number of columns on both sides and no rows.
C9_CropsWidthOnly ==
    Scenario9 =>
        /\ lastUpscale.cols[1] > 0
        /\ lastUpscale.cols[1] = lastUpscale.old_width - lastUpscale.cols[2]
        /\ lastUpscale.rows = <<0, lastUpscale.old_height>>
        /\ lastUpscale.size = <<64, 96>>

\* C9 amended: the 64x64 latent upscaled to 768x512 with center crop loses
\* the same number of rows at the top and at the bottom and no columns, and
\* is resampled to (height // 8, width // 8).
C9_CropsHeightOnly ==
    Scenario9 =>
        /\ lastUpscale.rows[1] > 0
        /\ lastUpscale.rows[1] = lastUpscale.old_height - lastUpscale.rows[2]
        /\ lastUpscale.cols = <<0, lastUpscale.old_width>>
        /\ lastUpscale.size = <<64, 96>>

C9_Witness == Scenario9 /\ lastUpscale.rows = <<11, 53>> /\ lastUpscale.cropped = <<42, 64>>

\* C10: a file of the configs directory is selectable iff its extension,
\* lower-cased, is .yaml; a file of the checkpoints or vae directory iff its
\* extension is a supported checkpoint extension.
C10_SelectableIffSupported ==
    /\ lastListing.kind = "CheckpointLoader" =>
         /\ \A f \in models_dir.configs :
                f \in SeqToSet(lastListing.config_name) <=> Lower(SplitExt(f)) = DotYaml
         /\ \A f \in models_dir.checkpoints :
                f \in SeqToSet(lastListing.ckpt_name)
                    <=> Lower(SplitExt(f)) \in SeqToSet(supported_ckpt_extensions)
    /\ lastListing.kind = "VAELoader" =>
         \A f \in models_dir.vae :
             f \in SeqToSet(lastListing.vae_name)
                 <=> Lower(SplitExt(f)) \in SeqToSet(supported_ckpt_extensions)

====
